---- MODULE Spec2Model ----
(***************************************************************************)
(* FormulaEvaluator (src/src/Engine/FormulaEvaluator.ts): the two-stack    *)
(* reduction of a tokenized spreadsheet formula, modelled statement by     *)
(* statement.  One evaluator object lives through a sequence of evaluate   *)
(* calls; the sheet memory it reads is changed by its owner between calls. *)
(***************************************************************************)
EXTENDS Integers, Sequences, FiniteSets, TLC

VARIABLES
    errorMessage,   \* FormulaEvaluator._errorMessage
    result,         \* FormulaEvaluator._result
    sheet,          \* the SheetMemory the evaluator was constructed with
    pc,             \* where the current evaluate call stands
    tokens,         \* the formula argument of the running call
    i,              \* loop index of evaluateExpression (1-based here)
    values,         \* local stack `values`
    operators,      \* local stack `operators`
    thrown,         \* message of the Error thrown in the running call, "" if none
    memo            \* observer: one earlier call and what it read

vars == <<errorMessage, result, sheet, pc, tokens, i, values, operators, thrown, memo>>

----------------------------------------------------------------------------
(* JavaScript numbers.  Finite values are exact fractions n/d in lowest    *)
(* terms; NaN and the undefined that Array.pop gives on an empty array are *)
(* separate values.                                                        *)

RECURSIVE GCD(_, _)
GCD(a, b) == IF b = 0 THEN a ELSE GCD(b, a % b)

Abs(x) == IF x < 0 THEN -x ELSE x

Frac(n, d) ==
    LET s == IF d < 0 THEN -1 ELSE 1
        g == GCD(Abs(n), Abs(d))
    IN  [k |-> "num", n |-> (s * n) \div g, d |-> (s * d) \div g]

Num(n) == [k |-> "num", n |-> n, d |-> 1]
NaN == [k |-> "NaN", n |-> 0, d |-> 1]
undefined == [k |-> "undefined", n |-> 0, d |-> 1]
Zero == Num(0)

IsFinite(x) == x.k = "num"

\* operand1 <op> operand2 of JavaScript: NaN or undefined on either side
\* gives NaN.  The code divides only after testing operand2 !== 0.
JsAdd(a, b) == IF IsFinite(a) /\ IsFinite(b) THEN Frac(a.n * b.d + b.n * a.d, a.d * b.d) ELSE NaN
JsSub(a, b) == IF IsFinite(a) /\ IsFinite(b) THEN Frac(a.n * b.d - b.n * a.d, a.d * b.d) ELSE NaN
JsMul(a, b) == IF IsFinite(a) /\ IsFinite(b) THEN Frac(a.n * b.n, a.d * b.d) ELSE NaN
JsDiv(a, b) == IF IsFinite(a) /\ IsFinite(b) THEN Frac(a.n * b.d, a.d * b.n) ELSE NaN

\* x || 0 on a number: NaN and 0 are falsy
OrZero(x) == IF IsFinite(x) /\ x.n # 0 THEN x ELSE Zero

\* Number(token) for the token texts of the model
Number(token) ==
    CASE token = "0" -> Num(0)
      [] token = "2" -> Num(2)
      [] token = "3" -> Num(3)
      [] token = "4" -> Num(4)
      [] token = "5" -> Num(5)
      [] token = "8" -> Num(8)
      [] OTHER -> NaN

----------------------------------------------------------------------------
(* ErrorMessages of GlobalDefinitions and the cells of SheetMemory.        *)

emptyFormula == "EmptyFormula"
invalidFormula == "InvalidFormula"
invalidOperator == "InvalidOperator"
divideByZero == "DivideByZero"
invalidCell == "InvalidCell"

CellLabels == {"A1"}

\* Cell.isValidCellLabel
isValidCellLabel(token) == token \in CellLabels

\* what a cell answers to getFormula().length, getValue(), getError()
CellStates ==
    { [formulaLength |-> 1, value |-> Num(4), error |-> ""],
      [formulaLength |-> 0, value |-> Zero,   error |-> ""],
      [formulaLength |-> 0, value |-> Zero,   error |-> emptyFormula],
      [formulaLength |-> 1, value |-> Zero,   error |-> divideByZero],
      [formulaLength |-> 0, value |-> Zero,   error |-> divideByZero] }

----------------------------------------------------------------------------
(* The private helpers of FormulaEvaluator.                                *)

isNumber(token) == Number(token).k # "NaN"

isCellReference(token) == isValidCellLabel(token)

isOperator(token) == token \in {"+", "-", "*", "/"}

\* every operator at one level
getOperatorPrecedenceFlat(operator) ==
    CASE operator \in {"+", "-", "*", "/"} -> 1
      [] OTHER -> 0

getOperatorPrecedence(operator) ==
    CASE operator \in {"+", "-"} -> 1
      [] operator \in {"*", "/"} -> 2
      [] OTHER -> 0

\* [value, error] of getCellValue
getCellValue(token) ==
    LET cell == sheet[token]
    IN  IF cell.error # "" /\ cell.error # emptyFormula
          THEN [value |-> Zero, error |-> cell.error]
        ELSE IF cell.formulaLength = 0
          THEN [value |-> Zero, error |-> invalidCell]
        ELSE [value |-> cell.value, error |-> ""]

\* Array.prototype.pop: the popped value (undefined on an empty array) and
\* the array left
Pop(s) ==
    IF Len(s) = 0 THEN [val |-> undefined, rest |-> <<>>]
    ELSE [val |-> s[Len(s)], rest |-> SubSeq(s, 1, Len(s) - 1)]

\* applyOperator(operator, values): the values left, the message of the
\* Error it threw ("" if it returned) and the error message it stored before
applyOperator(operator, vals) ==
    LET p2 == Pop(vals)
        p1 == Pop(p2.rest)
        operand2 == p2.val
        operand1 == p1.val
        push(r) == [values |-> Append(p1.rest, r), thrown |-> "", error |-> ""]
    IN  CASE operator = "+" -> push(JsAdd(operand1, operand2))
          [] operator = "-" -> push(JsSub(operand1, operand2))
          [] operator = "*" -> push(JsMul(operand1, operand2))
          [] operator = "/" ->
                IF operand2 = Zero
                  THEN [values |-> p1.rest, thrown |-> "Division by zero", error |-> divideByZero]
                  ELSE push(JsDiv(operand1, operand2))
          [] OTHER -> [values |-> p1.rest, thrown |-> "Invalid operator", error |-> invalidOperator]

----------------------------------------------------------------------------
(* The formulas a caller hands to evaluate.                                *)

MaxLen == 3

Alphabet == {"0", "2", "+", "/", "(", ")", "A1", "x"}

AllSeqs == UNION { [1..n -> Alphabet] : n \in 0..MaxLen }

FamNums == {"2", "3"}
FamOps == {"+", "-", "*", "/"}

\* a op b op c, flat and with either pair parenthesized
Family ==
    UNION { { <<a, o1, b, o2, c>>,
              <<"(", a, o1, b, ")", o2, c>>,
              <<a, o1, "(", b, o2, c, ")">> } :
            <<a, b, c, o1, o2>> \in FamNums \X FamNums \X FamNums \X FamOps \X FamOps }

Samples ==
    { <<"2", "+", "3", "*", "4">>,
      <<"(", "2", "+", "3", ")", "*", "4">>,
      <<"8", "-", "3", "-", "2">>,
      <<"5", "/", "0">>,
      <<"A1", "*", "(", "2", "+", "A1", ")">> }

Formulas == AllSeqs \cup Family \cup Samples

\* formulas of every outcome: a value, zero, each error path, the empty one
HistFormulas ==
    { <<>>, <<"2">>, <<"0">>, <<"A1">>, <<"x">>,
      <<"2", "+", "3">>, <<"2", "3">>, <<"2", "+">>,
      <<"5", "/", "0">>, <<"(", "2">>, <<"2", ")">>,
      <<"A1", "*", "2">>, <<"8", "-", "3", "-", "2">>,
      <<"(", "2", "+", "3", ")">> }

----------------------------------------------------------------------------
(* State after `new FormulaEvaluator(memory)`.                             *)

\* the observer before it has remembered a call
NoMemo ==
    [tokens |-> <<>>,
     sheet |-> [c \in CellLabels |-> [formulaLength |-> 0, value |-> Zero, error |-> ""]],
     result |-> Zero, error |-> "", set |-> FALSE, other |-> FALSE]

Init ==
    /\ errorMessage = ""
    /\ result = Zero
    /\ sheet \in [CellLabels -> CellStates]
    /\ pc = "idle"
    /\ tokens = <<>>
    /\ i = 1
    /\ values = <<>>
    /\ operators = <<>>
    /\ thrown = ""
    /\ memo = NoMemo

\* the owner of the sheet rewrites a cell between two evaluate calls
SetCell ==
    /\ pc = "idle"
    /\ \E c \in CellLabels, s \in CellStates : sheet' = [sheet EXCEPT ![c] = s]
    /\ UNCHANGED <<errorMessage, result, pc, tokens, i, values, operators, thrown, memo>>

\* evaluate without `this._result = 0`
evaluateKeepResult(formula) ==
    /\ pc = "idle"
    /\ tokens' = formula
    /\ thrown' = ""
    /\ i' = 1
    /\ values' = <<>>
    /\ operators' = <<>>
    /\ IF Len(formula) = 0
         THEN errorMessage' = emptyFormula /\ pc' = "done"
         ELSE errorMessage' = "" /\ pc' = "scan"
    /\ UNCHANGED <<result, sheet, memo>>

\* evaluate without `this._errorMessage = ""`
evaluateKeepError(formula) ==
    /\ pc = "idle"
    /\ tokens' = formula
    /\ result' = Zero
    /\ thrown' = ""
    /\ i' = 1
    /\ values' = <<>>
    /\ operators' = <<>>
    /\ IF Len(formula) = 0
         THEN errorMessage' = emptyFormula /\ pc' = "done"
         ELSE pc' = "scan" /\ UNCHANGED errorMessage
    /\ UNCHANGED <<sheet, memo>>

\* evaluate without the test of formula.length
evaluateNoEmptyTest(formula) ==
    /\ pc = "idle"
    /\ tokens' = formula
    /\ result' = Zero
    /\ thrown' = ""
    /\ i' = 1
    /\ values' = <<>>
    /\ operators' = <<>>
    /\ errorMessage' = ""
    /\ pc' = "scan"
    /\ UNCHANGED <<sheet, memo>>

\* evaluate(formula), lines 17-27: reset, the empty-formula return, entry of
\* evaluateExpression
evaluate(formula) ==
    /\ pc = "idle"
    /\ tokens' = formula
    /\ result' = Zero
    /\ thrown' = ""
    /\ i' = 1
    /\ values' = <<>>
    /\ operators' = <<>>
    /\ IF Len(formula) = 0
         THEN errorMessage' = emptyFormula /\ pc' = "done"
         ELSE errorMessage' = "" /\ pc' = "scan"
    /\ UNCHANGED <<sheet, memo>>

\* one iteration of a reduction loop: applyOperator(operators.pop()!, values);
\* a throw leaves the loops for the catch clause with the message stored
Reduce ==
    LET top == Pop(operators)
        r == applyOperator(top.val, values)
    IN  /\ operators' = top.rest
        /\ values' = r.values
        /\ thrown' = r.thrown
        /\ IF r.thrown # ""
             THEN errorMessage' = r.error /\ pc' = "catch"
             ELSE UNCHANGED <<errorMessage, pc>>

InLoop == pc = "scan" /\ i <= Len(tokens)

\* lines 42-43
PushNumber ==
    /\ InLoop
    /\ isNumber(tokens[i])
    /\ values' = Append(values, Number(tokens[i]))
    /\ i' = i + 1
    /\ UNCHANGED <<errorMessage, result, sheet, pc, tokens, operators, thrown, memo>>

\* lines 44-50
ResolveCell ==
    /\ InLoop
    /\ ~isNumber(tokens[i])
    /\ isCellReference(tokens[i])
    /\ LET got == getCellValue(tokens[i])
       IN  IF got.error # ""
             THEN /\ errorMessage' = got.error
                  /\ thrown' = "Invalid cell reference"
                  /\ pc' = "catch"
                  /\ UNCHANGED <<values, i>>
             ELSE /\ values' = Append(values, got.value)
                  /\ i' = i + 1
                  /\ UNCHANGED <<errorMessage, pc, thrown>>
    /\ UNCHANGED <<result, sheet, tokens, operators, memo>>

IsOpenParen(token) == ~isNumber(token) /\ ~isCellReference(token) /\ token = "("
IsCloseParen(token) == ~isNumber(token) /\ ~isCellReference(token) /\ token = ")"
IsOperatorToken(token) ==
    /\ ~isNumber(token) /\ ~isCellReference(token)
    /\ token # "(" /\ token # ")"
    /\ isOperator(token)

\* lines 51-52
OpenParen ==
    /\ InLoop
    /\ IsOpenParen(tokens[i])
    /\ operators' = Append(operators, tokens[i])
    /\ i' = i + 1
    /\ UNCHANGED <<errorMessage, result, sheet, pc, tokens, values, thrown, memo>>

\* lines 54-56, one iteration
CloseParenReduce ==
    /\ InLoop
    /\ IsCloseParen(tokens[i])
    /\ Len(operators) > 0 /\ operators[Len(operators)] # "("
    /\ Reduce
    /\ UNCHANGED <<result, sheet, tokens, i, memo>>

\* line 57, after the loop ended
CloseParenPop ==
    /\ InLoop
    /\ IsCloseParen(tokens[i])
    /\ ~(Len(operators) > 0 /\ operators[Len(operators)] # "(")
    /\ operators' = Pop(operators).rest
    /\ i' = i + 1
    /\ UNCHANGED <<errorMessage, result, sheet, pc, tokens, values, thrown, memo>>

\* the loop condition of lines 59-62
Yields(token) ==
    /\ Len(operators) > 0
    /\ getOperatorPrecedence(token) <= getOperatorPrecedence(operators[Len(operators)])

\* lines 59-64, one iteration
OperatorReduce ==
    /\ InLoop
    /\ IsOperatorToken(tokens[i])
    /\ Yields(tokens[i])
    /\ Reduce
    /\ UNCHANGED <<result, sheet, tokens, i, memo>>

\* line 65, after the loop ended
OperatorPush ==
    /\ InLoop
    /\ IsOperatorToken(tokens[i])
    /\ ~Yields(tokens[i])
    /\ operators' = Append(operators, tokens[i])
    /\ i' = i + 1
    /\ UNCHANGED <<errorMessage, result, sheet, pc, tokens, values, thrown, memo>>

\* no branch of lines 42-66 takes the token
SkipToken ==
    /\ InLoop
    /\ ~isNumber(tokens[i]) /\ ~isCellReference(tokens[i])
    /\ tokens[i] # "(" /\ tokens[i] # ")" /\ ~isOperator(tokens[i])
    /\ i' = i + 1
    /\ UNCHANGED <<errorMessage, result, sheet, pc, tokens, values, operators, thrown, memo>>

\* lines 69-71, one iteration
FinalReduce ==
    /\ pc = "scan" /\ i > Len(tokens)
    /\ Len(operators) > 0
    /\ Reduce
    /\ UNCHANGED <<result, sheet, tokens, i, memo>>

\* lines 73-78 and the assignment of line 29
Finish ==
    /\ pc = "scan" /\ i > Len(tokens)
    /\ Len(operators) = 0
    /\ IF Len(values) # 1
         THEN /\ errorMessage' = invalidFormula
              /\ thrown' = "Invalid formula"
              /\ pc' = "catch"
              /\ UNCHANGED <<result, values>>
         ELSE /\ result' = OrZero(Pop(values).val)
              /\ pc' = "done"
              /\ values' = <<>>
              /\ UNCHANGED <<errorMessage, thrown>>
    /\ UNCHANGED <<sheet, tokens, i, operators, memo>>

\* a catch clause that throws the Error on to the caller
CatchRethrow ==
    /\ pc = "catch"
    /\ pc' = "escaped"
    /\ UNCHANGED <<errorMessage, result, sheet, tokens, i, values, operators, thrown, memo>>

\* lines 30-32
Catch ==
    /\ pc = "catch"
    /\ errorMessage' = invalidFormula
    /\ pc' = "done"
    /\ values' = <<>>
    /\ operators' = <<>>
    /\ UNCHANGED <<result, sheet, tokens, i, thrown, memo>>

\* the caller has read `error` and `result` (lines 153-159) and lets go of
\* the formula
ReadOutcome ==
    /\ pc = "done"
    /\ pc' = "idle"
    /\ tokens' = <<>>
    /\ i' = 1
    /\ thrown' = ""
    /\ memo' = IF memo.set /\ (result # memo.result \/ errorMessage # memo.error)
                THEN [memo EXCEPT !.other = TRUE]
                ELSE memo
    /\ UNCHANGED <<errorMessage, result, sheet, values, operators>>

\* observer: keep the formula, the sheet and what was read of this call, to
\* compare with a later call
Remember ==
    /\ pc = "done"
    /\ memo' = [tokens |-> tokens, sheet |-> sheet, result |-> result,
                error |-> errorMessage, set |-> TRUE, other |-> FALSE]
    /\ memo' # memo
    /\ UNCHANGED <<errorMessage, result, sheet, pc, tokens, i, values, operators, thrown>>

\* the steps of a running call
Run ==
    \/ PushNumber \/ ResolveCell \/ OpenParen
    \/ CloseParenReduce \/ CloseParenPop
    \/ OperatorReduce \/ OperatorPush
    \/ SkipToken \/ FinalReduce \/ Finish \/ Catch

Call == \E formula \in Formulas : evaluate(formula)

Next == SetCell \/ Call \/ Run \/ ReadOutcome

Spec == Init /\ [][Next]_vars

\* the same evaluator under a caller that repeats a few formulas and is
\* watched by the observer
CallAgain == \E formula \in HistFormulas : evaluate(formula)

NextHist == SetCell \/ CallAgain \/ Run \/ ReadOutcome \/ Remember

SpecHist == Init /\ [][NextHist]_vars

\* a call that has started runs to its end
FairSpec == Spec /\ WF_vars(Run)

----------------------------------------------------------------------------
(* Standard infix evaluation, by recursive descent over the grammar        *)
(*   expr ::= term { addop term }      addop ::= "+" | "-"                 *)
(*   term ::= factor { mulop factor }  mulop ::= "*" | "/"                 *)
(*   factor ::= number | "(" expr ")"                                      *)
(* A parse gives the position after what it read, the value, and whether a *)
(* division by zero occurred.                                              *)

NoParse == [ok |-> FALSE, pos |-> 0, val |-> Zero, dz |-> FALSE]

RECURSIVE ParseExpr(_, _), ExprRest(_, _), ParseTerm(_, _), TermRest(_, _), ParseFactor(_, _)

ParseFactor(ts, p) ==
    IF p > Len(ts) THEN NoParse
    ELSE IF Number(ts[p]).k = "num"
      THEN [ok |-> TRUE, pos |-> p + 1, val |-> Number(ts[p]), dz |-> FALSE]
    ELSE IF ts[p] = "("
      THEN LET e == ParseExpr(ts, p + 1)
           IN  IF e.ok /\ e.pos <= Len(ts) /\ ts[e.pos] = ")"
                 THEN [e EXCEPT !.pos = e.pos + 1]
                 ELSE NoParse
    ELSE NoParse

TermRest(ts, acc) ==
    IF acc.pos <= Len(ts) /\ ts[acc.pos] \in {"*", "/"}
      THEN LET f == ParseFactor(ts, acc.pos + 1)
               byZero == ts[acc.pos] = "/" /\ f.val = Zero
               v == IF byZero THEN Zero
                    ELSE IF ts[acc.pos] = "*" THEN JsMul(acc.val, f.val)
                    ELSE JsDiv(acc.val, f.val)
           IN  IF f.ok
                 THEN TermRest(ts, [ok |-> TRUE, pos |-> f.pos, val |-> v,
                                    dz |-> acc.dz \/ f.dz \/ byZero])
                 ELSE NoParse
      ELSE acc

ParseTerm(ts, p) ==
    LET f == ParseFactor(ts, p)
    IN  IF f.ok THEN TermRest(ts, f) ELSE NoParse

ExprRest(ts, acc) ==
    IF acc.pos <= Len(ts) /\ ts[acc.pos] \in {"+", "-"}
      THEN LET t == ParseTerm(ts, acc.pos + 1)
               v == IF ts[acc.pos] = "+" THEN JsAdd(acc.val, t.val)
                    ELSE JsSub(acc.val, t.val)
           IN  IF t.ok
                 THEN ExprRest(ts, [ok |-> TRUE, pos |-> t.pos, val |-> v,
                                    dz |-> acc.dz \/ t.dz])
                 ELSE NoParse
      ELSE acc

ParseExpr(ts, p) ==
    LET t == ParseTerm(ts, p)
    IN  IF t.ok THEN ExprRest(ts, t) ELSE NoParse

Infix(ts) == ParseExpr(ts, 1)

WellFormed(ts) == Infix(ts).ok /\ Infix(ts).pos = Len(ts) + 1

\* evaluate has returned and the caller reads `error` and `result`
Returned == pc = "done"

----------------------------------------------------------------------------
\* C1: for a well-formed infix formula of number literals, + - * / and
\* balanced parentheses, without a division by zero, evaluate ends with an
\* empty error and the result of standard infix evaluation: the operators
\* * and / bind tighter than + and -, equal precedence associates to the
\* left, parentheses override precedence.
C1_StandardInfix ==
    (Returned /\ WellFormed(tokens) /\ ~Infix(tokens).dz)
        => (errorMessage = "" /\ result = Infix(tokens).val)

\* 8 - 3 - 2 has returned 3, the left-associative value
C1_Witness ==
    /\ Returned
    /\ tokens = <<"8", "-", "3", "-", "2">>
    /\ WellFormed(tokens)
    /\ errorMessage = ""
    /\ result = Num(3)

\* C2: when the reduction applies / to a right-hand operand that is exactly
\* zero, the error read after evaluate returns is DivideByZero, which is not
\* InvalidFormula, and the result is 0.
C2_DivideByZeroReported ==
    (Returned /\ thrown = "Division by zero")
        => (errorMessage = divideByZero /\ errorMessage # invalidFormula /\ result = Zero)

\* the cell whose lookup made line 48 throw
FailedCell == sheet[tokens[i]]

\* C3: when the formula references a cell whose stored error is not empty and
\* is not EmptyFormula, the error read after evaluate returns is that cell's
\* stored error, and the result is 0.
C3_CellErrorSurfaced ==
    (/\ Returned
     /\ thrown = "Invalid cell reference"
     /\ FailedCell.error # "" /\ FailedCell.error # emptyFormula)
        => (errorMessage = FailedCell.error /\ result = Zero)

\* C4: when the formula references a cell whose formula is empty and which
\* holds no error other than EmptyFormula, the error read after evaluate
\* returns is InvalidCell, and the result is 0.
C4_EmptyCellInvalid ==
    (/\ Returned
     /\ thrown = "Invalid cell reference"
     /\ FailedCell.formulaLength = 0
     /\ FailedCell.error \in {"", emptyFormula})
        => (errorMessage = invalidCell /\ result = Zero)

\* a non-empty sequence of number literals and arithmetic operators that is
\* no infix expression: two operands meet without an operator, or an
\* operator lacks an operand
Malformed(ts) ==
    /\ Len(ts) > 0
    /\ \A p \in 1..Len(ts) : Number(ts[p]).k = "num" \/ ts[p] \in {"+", "-", "*", "/"}
    /\ ~WellFormed(ts)

\* C5: for a malformed non-empty sequence of number literals and operators
\* (operands left over, or an operator without its operand), evaluate ends
\* with InvalidFormula, never with an empty error and a number.
C5_MalformedIsInvalid ==
    (Returned /\ Malformed(tokens)) => errorMessage = invalidFormula

\* C6: for the empty token sequence, evaluate ends with EmptyFormula and
\* result 0, whatever earlier calls left in the two fields.
C6_EmptyFormula ==
    (Returned /\ tokens = <<>>) => (errorMessage = emptyFormula /\ result = Zero)

\* the empty formula was evaluated after a call that had left a number
C6_Witness ==
    /\ Returned
    /\ tokens = <<>>
    /\ errorMessage = emptyFormula
    /\ memo.set /\ memo.error = "" /\ memo.result # Zero

\* C7: after every evaluate call, a non-empty error comes with result 0.
C7_ErrorImpliesZero ==
    (pc \in {"done", "idle"} /\ errorMessage # "") => result = Zero

\* a call failed with two values left on the stack
C7_Witness ==
    /\ Returned
    /\ tokens = <<"2", "2">>
    /\ thrown = "Invalid formula"
    /\ errorMessage # ""
    /\ result = Zero

\* C8: result and error after evaluate(f) depend on f and the sheet only:
\* the same tokens on the same sheet give what an earlier call gave, whatever
\* calls were made in between.
C8_SameOutcome ==
    (Returned /\ memo.set /\ memo.tokens = tokens /\ memo.sheet = sheet)
        => (result = memo.result /\ errorMessage = memo.error)

\* a formula was evaluated again after a call of another outcome
C8_Witness ==
    /\ Returned
    /\ memo.set /\ memo.other
    /\ memo.tokens = tokens /\ memo.sheet = sheet
    /\ Len(tokens) > 1
    /\ result # Zero

\* C9: every evaluate call reaches its end and returns: the loops end, no
\* Error leaves evaluate, and a call in which an Error was thrown ends with a
\* non-empty error.
C9_Terminates ==
    /\ (pc \in {"scan", "catch"}) ~> Returned
    /\ [](pc \in {"idle", "scan", "catch", "done"})
    /\ []((Returned /\ thrown # "") => errorMessage # "")

\* a call on an unmatched ")", an unrecognized token and an operator without
\* operands has returned
C9_Witness ==
    /\ Returned
    /\ tokens = <<")", "x", "+">>

\* C10: when a symbol outside + - * / reaches applyOperator (an open
\* parenthesis left on the operator stack), the error read after evaluate
\* returns is InvalidOperator, and the result is 0.
C10_InvalidOperatorReported ==
    (Returned /\ thrown = "Invalid operator")
        => (errorMessage = invalidOperator /\ result = Zero)

====
